---- MODULE Spec2Model ----
(***************************************************************************)
(* Model of src/main.py: a FastAPI service with two endpoints.             *)
(*   POST /clone-repo/     clone_repo     clones and renames a repository  *)
(*                                        and stores its path in the       *)
(*                                        process-wide project_path        *)
(*   POST /remove-module/  remove_module  removes an Angular module        *)
(*                                        directory and rewrites every .ts *)
(*                                        file with regular expressions    *)
(*                                                                         *)
(* Texts are sequences of symbols.  A symbol is a one-character string for *)
(* the characters the regular expressions distinguish (letters of module   *)
(* names, quotes, braces, '.', '/', ',', ';', blank, newline) and an       *)
(* atomic string for a keyword or a run of other characters.               *)
(***************************************************************************)
EXTENDS Integers, Sequences, FiniteSets, TLC

(***************************************************************************)
(* Regular expressions, as re.sub(pattern, "", content, flags=IGNORECASE)  *)
(* evaluates them: leftmost match, greedy repetition with backtracking.    *)
(***************************************************************************)

\* re.IGNORECASE: symbols are compared after case folding.
Lower(c) ==
    CASE c = "F" -> "f"
      [] c = "B" -> "b"
      [] c = "O" -> "o"
      [] OTHER -> c

WS == {" ", "\n"}
QUOTES == {"'", "\""}

\* Pattern elements.  neg = TRUE is a negated character class [^...].
Lit(c) == [k |-> "one", neg |-> FALSE, cs |-> {Lower(c)}]
OneOf(S) == [k |-> "one", neg |-> FALSE, cs |-> S]
Star(S) == [k |-> "star", neg |-> FALSE, cs |-> S]
Plus(S) == [k |-> "plus", neg |-> FALSE, cs |-> S]
PlusNot(S) == [k |-> "plus", neg |-> TRUE, cs |-> S]
Opt(c) == [k |-> "opt", neg |-> FALSE, cs |-> {c}]

Lits(w) == [i \in 1..Len(w) |-> Lit(w[i])]

Accepts(e, c) == IF e.neg THEN Lower(c) \notin e.cs ELSE Lower(c) \in e.cs

\* Length of the longest run of symbols of s, from position i, that e accepts.
RunLen(e, s, i) ==
    LET stops == {k \in i..Len(s) : ~Accepts(e, s[k])}
    IN IF stops = {} THEN Len(s) + 1 - i
       ELSE (CHOOSE k \in stops : \A m \in stops : k <= m) - i

RECURSIVE MatchEnd(_, _, _, _)
\* The position after the match of pat[j..] at s[i..], or 0 when there is none.
\* A repetition is greedy: the longest run for which the rest of the pattern
\* matches, the backtracking engine's choice.
MatchEnd(pat, s, j, i) ==
    IF j > Len(pat) THEN i
    ELSE LET e == pat[j] IN
         CASE e.k = "one" ->
                IF i <= Len(s) /\ Accepts(e, s[i])
                THEN MatchEnd(pat, s, j + 1, i + 1) ELSE 0
           [] e.k = "opt" ->
                LET r == IF i <= Len(s) /\ Accepts(e, s[i])
                         THEN MatchEnd(pat, s, j + 1, i + 1) ELSE 0
                IN IF r # 0 THEN r ELSE MatchEnd(pat, s, j + 1, i)
           [] OTHER ->
                LET min == IF e.k = "plus" THEN 1 ELSE 0
                    run == RunLen(e, s, i)
                    r == MatchEnd(pat, s, j + 1, i + run)
                    fits == {n \in min..(run - 1) :
                                MatchEnd(pat, s, j + 1, i + n) # 0}
                IN IF run < min THEN 0
                   ELSE IF r # 0 THEN r
                   ELSE IF fits = {} THEN 0
                   ELSE MatchEnd(pat, s, j + 1,
                                 i + (CHOOSE n \in fits : \A m \in fits : m <= n))

RECURSIVE SubFrom(_, _, _)
\* s[i..] with every leftmost, non-overlapping match of pat deleted.
SubFrom(pat, s, i) ==
    LET starts == {k \in i..Len(s) : MatchEnd(pat, s, 1, k) # 0}
    IN IF starts = {} THEN SubSeq(s, i, Len(s))
       ELSE LET k == CHOOSE x \in starts : \A y \in starts : x <= y
            IN SubSeq(s, i, k - 1) \o SubFrom(pat, s, MatchEnd(pat, s, 1, k))

\* re.sub(pat, "", s, flags=re.IGNORECASE)
ReSub(pat, s) == SubFrom(pat, s, 1)

(***************************************************************************)
(* The four patterns of remove_angular_module, for module_name = name (a   *)
(* sequence of letters, interpolated into the pattern unescaped).          *)
(***************************************************************************)

\* rf"import\s+{{[^}}]+}}\s+from\s+['\"]\.\/{module_name}\/[^'\"]+['\"];"
ImportPattern(name) ==
    <<Lit("import"), Plus(WS), Lit("{"), PlusNot({"}"}), Lit("}"), Plus(WS),
      Lit("from"), Plus(WS), OneOf(QUOTES), Lit("."), Lit("/")>>
    \o Lits(name)
    \o <<Lit("/"), PlusNot(QUOTES), OneOf(QUOTES), Lit(";")>>

\* rf"\s*{{\s*path:\s*'{module_name}',\s*loadChildren:\s*\(\)\s*=>\s*[^}}]+}},?"
RoutePattern(name) ==
    <<Star(WS), Lit("{"), Star(WS), Lit("path:"), Star(WS), Lit("'")>>
    \o Lits(name)
    \o <<Lit("'"), Lit(","), Star(WS), Lit("loadChildren:"), Star(WS),
         Lit("()"), Star(WS), Lit("=>"), Star(WS), PlusNot({"}"}), Lit("}"),
         Opt(",")>>

\* The literal pattern without the "/" that ends the directory name.
LiteralPatternNoSlash(name) ==
    <<OneOf(QUOTES), Lit("."), Lit("/")>>
    \o Lits(name)
    \o <<PlusNot(QUOTES), OneOf(QUOTES)>>

\* rf"['\"]\.\/{module_name}\/[^'\"]+['\"]"
LiteralPattern(name) ==
    <<OneOf(QUOTES), Lit("."), Lit("/")>>
    \o Lits(name)
    \o <<Lit("/"), PlusNot(QUOTES), OneOf(QUOTES)>>

\* rf"{module_name}Module,?"
NgModulePattern(name) == Lits(name) \o <<Lit("Module"), Opt(",")>>

\* The rewrite of app-routing.module.ts: import, route block, literal.
EditRoutingFile(content, name) ==
    ReSub(LiteralPattern(name),
          ReSub(RoutePattern(name), ReSub(ImportPattern(name), content)))

\* The rewrite of every .ts file under the project: import, NgModule entry,
\* literal, route block.
EditTsFile(content, name) ==
    ReSub(RoutePattern(name),
          ReSub(LiteralPattern(name),
                ReSub(NgModulePattern(name),
                      ReSub(ImportPattern(name), content))))

(***************************************************************************)
(* Module names and source texts used as inputs.                           *)
(***************************************************************************)
Foo == <<"f", "o", "o">>
Foobar == <<"f", "o", "o", "b", "a", "r">>
Foofoo == <<"f", "o", "o", "f", "o", "o">>
Bar == <<"b", "a", "r">>

\* The generated class name capitalises the first letter: foo -> Foo.
Cap(name) ==
    <<(CASE name[1] = "f" -> "F" [] name[1] = "b" -> "B" [] OTHER -> name[1])>>
    \o Tail(name)

\* import { FooModule } from './foo/foo.module';
ImportStmt(n) ==
    <<"import", " ", "{", " ">> \o Cap(n) \o <<"Module", " ", "}", " ", "from",
      " ", "'", ".", "/">> \o n \o <<"/">> \o n \o <<".module", "'", ";", "\n">>

\* imports: [FooModule, CommonModule]
DeclEntry(n) ==
    <<"imports: [">> \o Cap(n) \o <<"Module", ",", " ", "Common", "]", "\n">>

\* const p = "./foo/assets";
PathLiteral(n) ==
    <<"const p =", " ", "\"", ".", "/">> \o n \o <<"/", "assets", "\"", ";", "\n">>

\* The loadChildren expression: import('./foo/foo.module').then(m => m.FooModule)
LazyLoad(n) ==
    <<"import(", "'", ".", "/">> \o n \o <<"/">> \o n
    \o <<".module", "'", ")", ".then(m", " ", "=>", " ", "m.">> \o Cap(n)
    \o <<"Module", ")">>

\* { path: 'foo', loadChildren: () => import(...).then(...) },
\* form "line": on one line; "multi": the keys on separate lines;
\* "nested": multi-line, followed by a key whose value is a braced object.
RouteBlock(n, form) ==
    LET sep == IF form = "line" THEN " " ELSE "\n" IN
    <<" ", " ", "{", sep, "path:", " ", "'">> \o n \o <<"'", ",", sep,
      "loadChildren:", " ", "()", " ", "=>", " ">> \o LazyLoad(n)
    \o (IF form = "nested"
        THEN <<",", sep, "data:", " ", "{", " ", "title", " ", "}">>
        ELSE << >>)
    \o <<sep, "}", ",", "\n">>

(***************************************************************************)
(* The file system.  A path is the name of a directory inside clone_dir,   *)
(* as a sequence of symbols; the empty path is the initial project_path,   *)
(* which os.path.join resolves against the process's working directory.    *)
(***************************************************************************)
Cwd == << >>
RepoA == <<"repoA">>
RepoB == <<"repoB">>
PathNames == {Cwd, RepoA, RepoB}

\* main: src/main.ts, routing: src/app/app-routing.module.ts,
\* appmod: src/app/app.module.ts, notes: src/app/notes.md,
\* inner: src/app/foo/foo.module.ts
FileIds == {"main", "routing", "appmod", "notes", "inner"}

\* file_path.endswith(".ts")
IsTs(f) == f # "notes"

\* The module directory a file lies in, << >> for a file outside every module.
InModule(f) == IF f = "inner" THEN Foo ELSE << >>

\* os.walk is top-down: the files of a directory come before those of its
\* subdirectories.
Depth(f) == CASE f = "main" -> 1 [] f = "inner" -> 3 [] OTHER -> 2

NoFile == [there |-> FALSE, ok |-> FALSE, text |-> << >>]
File(t) == [there |-> TRUE, ok |-> TRUE, text |-> t]
NoFiles == [f \in FileIds |-> NoFile]

\* app: what src/app is: "dir", "file" (a regular file) or "none".
NoTree == [there |-> FALSE, app |-> "none", mods |-> {}, files |-> NoFiles]

\* What git clone of each repository puts on disk.
RepoTree(name) ==
    IF name = RepoA
    THEN [there |-> TRUE, app |-> "dir", mods |-> {Foo, Foobar},
          files |-> [f \in FileIds |->
             CASE f = "main" -> File(PathLiteral(Foo))
               [] f = "routing" -> File(ImportStmt(Foo))
               [] f = "appmod" -> File(DeclEntry(Foo) \o DeclEntry(Foobar))
               [] f = "notes" -> File(PathLiteral(Foo))
               [] f = "inner" -> File(DeclEntry(Foo))]]
    ELSE [there |-> TRUE, app |-> "file", mods |-> {},
          files |-> [f \in FileIds |->
             IF f = "main" THEN File(PathLiteral(Foo)) ELSE NoFile]]

\* An Angular project in the directory the server was started from.
CwdTree ==
    [there |-> TRUE, app |-> "dir", mods |-> {Foo},
     files |-> [f \in FileIds |->
        CASE f = "routing" -> File(ImportStmt(Foo))
          [] f = "main" -> File(PathLiteral(Foo))
          [] OTHER -> NoFile]]

UrlA == <<"https://host", "/", "org", "/", "repoA", ".git">>
UrlB == <<"https://host", "/", "org", "/", "repoB">>
Urls == {UrlA, UrlB}
NewNames == {RepoA, RepoB}
ReqModules == {Foo, Foobar}

\* os.path.basename(urlparse(repo_url).path), without a trailing ".git".
get_project_name(repo_url) ==
    LET slashes == {i \in 1..Len(repo_url) : repo_url[i] = "/"}
        cut == IF slashes = {} THEN 0
               ELSE CHOOSE i \in slashes : \A k \in slashes : k <= i
        base == SubSeq(repo_url, cut + 1, Len(repo_url))
    IN IF Len(base) > 0 /\ base[Len(base)] = ".git"
       THEN SubSeq(base, 1, Len(base) - 1) ELSE base

\* os.listdir(src/app) raises when src/app exists and is no directory.
ListingRaises(tree) == tree.app = "file"

\* get_angular_modules: the subdirectories of src/app, [] when it is absent.
get_angular_modules(tree) == IF tree.app = "dir" THEN tree.mods ELSE {}

\* os.walk(project_path): every file under the path; os.walk("") yields
\* nothing (scandir("") fails and the error is swallowed).
WalkFiles(path, tree) ==
    IF path = Cwd THEN {}
    ELSE {f \in FileIds : tree.files[f].there /\ IsTs(f)}

\* rm -rf src/app/<module>
RmTree(tree, module) ==
    [tree EXCEPT !.mods = @ \ {module},
                 !.files = [f \in FileIds |->
                              IF InModule(f) = module THEN NoFile ELSE @[f]]]

(***************************************************************************)
(* The server.                                                              *)
(***************************************************************************)
MaxRequests == 2
MaxExternal == 1

Conns == {1, 2}

VARIABLES
    project_path,  \* the global of main.py
    fs,            \* the directories of clone_dir and the working directory
    pc,            \* per connection: "idle", "pending" or the handler's position
    args,          \* per connection: the request body
    loc,           \* per connection: the locals of remove_module
    nreq,          \* requests submitted so far
    ext,           \* writes and chmods by other processes so far
    okRoot,        \* history: clone_location of the last clone-repo answered 200
    last,          \* history: the response sent last
    inp, outText, stage   \* the rewrite of one file, taken in isolation

vars == <<project_path, fs, pc, args, loc, nreq, ext, okRoot, last,
          inp, outText, stage>>
editVars == <<inp, outText, stage>>
serverVars == <<project_path, fs, pc, args, loc, nreq, ext, okRoot, last>>

NoArgs == [kind |-> "none", url |-> << >>, new_name |-> << >>, module |-> << >>]
CloneArgs == {[kind |-> "clone", url |-> u, new_name |-> n, module |-> << >>] :
                 u \in Urls, n \in NewNames}
RemoveArgs == {[kind |-> "remove", url |-> << >>, new_name |-> << >>, module |-> m] :
                 m \in ReqModules}

\* mods: angular_modules; todo: the files os.walk has yet to yield; cur, buf:
\* the file being rewritten and the content read from it.  History: affected
\* (the .ts files outside the module's directory that the rewrite changes, as
\* of the start of the request), written (the files the request has rewritten
\* with changed content), rmdone (rm -rf has removed the directory).
NoLoc == [mods |-> {}, todo |-> {}, cur |-> "", buf |-> << >>,
          affected |-> {}, written |-> {}, rmdone |-> FALSE]

\* The response sent last: kind and module of its request, the project path
\* the request acted on, status (0: none yet), detail and remaining_modules.
\* History: catalog (the subdirectories of src/app when the response was
\* made), again (the response before this one answered 200 to a remove-module
\* of the same module on the same path, and no other process has touched the
\* files since), ext (the value of ext when the response was made), and
\* affected, written, rmdone of the request.
NoLast == [kind |-> "none", module |-> << >>, path |-> << >>, status |-> 0,
           detail |-> "", remaining |-> {}, catalog |-> {}, again |-> FALSE,
           ext |-> 0, affected |-> {}, written |-> {}, rmdone |-> FALSE]

ServerInit ==
    /\ project_path = Cwd
    /\ \E t \in {NoTree, CwdTree} :
          fs = [p \in PathNames |-> IF p = Cwd THEN t ELSE NoTree]
    /\ pc = [c \in Conns |-> "idle"]
    /\ args = [c \in Conns |-> NoArgs]
    /\ loc = [c \in Conns |-> NoLoc]
    /\ nreq = 0
    /\ ext = 0
    /\ okRoot = Cwd
    /\ last = NoLast

\* name: the module to remove; text: the content of the file, made of the
\* references of the given kinds to module ref, its route block in the given
\* form.
NoInput == [name |-> << >>, ref |-> << >>, kinds |-> {}, form |-> "line",
            text |-> << >>]

EditIdle ==
    /\ inp = NoInput
    /\ outText = << >>
    /\ stage = "off"

Init == ServerInit /\ EditIdle

\* A client sends a request; it is served on the lowest free connection.
Submit(c, a) ==
    /\ pc[c] = "idle"
    /\ \A d \in Conns : d < c => pc[d] # "idle"
    /\ nreq < MaxRequests
    /\ nreq' = nreq + 1
    /\ args' = [args EXCEPT ![c] = a]
    /\ pc' = [pc EXCEPT ![c] = "pending"]
    /\ UNCHANGED <<project_path, fs, loc, ext, okRoot, last>>

\* A handler that awaited its file operations: the event loop could start
\* another handler at any time.
LoopYields(c) == TRUE

\* Both handlers are coroutines without an await: once the event loop has
\* started one, it runs to its response before any other handler starts.
LoopFree(c) == \A d \in Conns \ {c} : pc[d] \in {"idle", "pending"}

\* The response of connection c, and the end of its handler: the locals are
\* gone.  path is the project path the request acted on, tree its content,
\* l the locals at the end.
Respond(c, status, detail, remaining, path, tree, l) ==
    /\ last' = [kind |-> args[c].kind, module |-> args[c].module,
                path |-> path, status |-> status, detail |-> detail,
                remaining |-> remaining,
                catalog |-> get_angular_modules(tree),
                again |-> /\ args[c].kind = "remove"
                          /\ last.kind = "remove"
                          /\ last.status = 200
                          /\ last.module = args[c].module
                          /\ last.path = path
                          /\ last.ext = ext,
                ext |-> ext, affected |-> l.affected, written |-> l.written,
                rmdone |-> l.rmdone]
    /\ pc' = [pc EXCEPT ![c] = "idle"]
    /\ args' = [args EXCEPT ![c] = NoArgs]
    /\ loc' = [loc EXCEPT ![c] = NoLoc]

\* except Exception as e: raise HTTPException(status_code=500, detail=str(e))
Raise(c, detail) ==
    Respond(c, 500, detail, {}, project_path, fs[project_path], loc[c])

\* clone_repo, from the first line to the response; clone_dir exists.  git
\* clone fails when the remote cannot be reached (gitok = FALSE) or
\* original_path exists; os.rename fails when renamed_path is an existing
\* directory.
CloneRepo(c) ==
    /\ pc[c] = "pending"
    /\ args[c].kind = "clone"
    /\ LoopFree(c)
    /\ UNCHANGED <<nreq, ext>>
    /\ LET original_path == get_project_name(args[c].url)
           renamed_path == args[c].new_name
           cloned == RepoTree(original_path)
       IN \E gitok \in BOOLEAN :
            IF ~gitok \/ fs[original_path].there
            THEN \* result.returncode != 0: HTTPException(400), caught below
                 /\ Raise(c, "git clone failed")
                 /\ UNCHANGED <<project_path, fs, okRoot>>
            ELSE IF renamed_path # original_path /\ fs[renamed_path].there
            THEN \* os.rename raises OSError; the clone stays at original_path
                 /\ fs' = [fs EXCEPT ![original_path] = cloned]
                 /\ Raise(c, "rename failed")
                 /\ UNCHANGED <<project_path, okRoot>>
            ELSE /\ fs' = [p \in PathNames |->
                             IF p = renamed_path THEN cloned
                             ELSE IF p = original_path THEN NoTree
                             ELSE fs[p]]
                 /\ project_path' = renamed_path
                 /\ IF ListingRaises(cloned)
                    THEN \* get_angular_modules raises after the assignment
                         /\ Respond(c, 500, "listdir failed", {}, renamed_path,
                                    cloned, NoLoc)
                         /\ UNCHANGED okRoot
                    ELSE /\ Respond(c, 200, "cloned", get_angular_modules(cloned),
                                    renamed_path, cloned, NoLoc)
                         /\ okRoot' = renamed_path

\* The .ts files outside the module's directory whose content the rewrite of
\* this request changes.
Affected(path, tree, module) ==
    {f \in FileIds :
        /\ tree.files[f].there
        /\ IsTs(f)
        /\ InModule(f) # module
        /\ \/ /\ f \in WalkFiles(path, tree)
              /\ EditTsFile(tree.files[f].text, module) # tree.files[f].text
           \/ /\ f = "routing"
              /\ tree.app = "dir"
              /\ EditRoutingFile(tree.files[f].text, module) # tree.files[f].text}

\* remove_module, lines 189-194 and 201-204: the catalog check.
RemoveStart(c) ==
    /\ pc[c] = "pending"
    /\ args[c].kind = "remove"
    /\ LoopFree(c)
    /\ UNCHANGED <<project_path, fs, nreq, ext, okRoot>>
    /\ LET tree == fs[project_path] IN
       IF ListingRaises(tree)
       THEN Raise(c, "listdir failed")
       ELSE IF args[c].module \in get_angular_modules(tree)
       THEN /\ loc' = [loc EXCEPT ![c] =
                         [NoLoc EXCEPT !.mods = get_angular_modules(tree),
                                       !.affected = Affected(project_path, tree,
                                                             args[c].module)]]
            /\ pc' = [pc EXCEPT ![c] = "rm"]
            /\ UNCHANGED <<args, last>>
       ELSE \* HTTPException(404, "Module not found"), caught and re-raised as 500
            Raise(c, "Module not found")

\* remove_angular_module, lines 53-57: rm -rf of the module's directory.
\* subprocess.run is called without check=True: the exit status of rm is
\* ignored, so a failed removal (rmok = FALSE) goes unnoticed.
RemoveDir(c) ==
    /\ pc[c] = "rm"
    /\ \E rmok \in BOOLEAN :
         /\ fs' = IF rmok
                  THEN [fs EXCEPT ![project_path] = RmTree(@, args[c].module)]
                  ELSE fs
         /\ loc' = [loc EXCEPT ![c].rmdone = rmok]
    /\ pc' = [pc EXCEPT ![c] = "routing"]
    /\ UNCHANGED <<project_path, args, nreq, ext, okRoot, last>>

\* with open(path, "w") as file: file.write(content), on the project's tree.
WriteFile(f, content) ==
    fs' = [fs EXCEPT ![project_path].files[f].text = content]

\* History: f holds new content once the request has written content that
\* differs from what it read.
Wrote(c, f, content) ==
    IF content # loc[c].buf THEN loc[c].written \cup {f} ELSE loc[c].written

\* remove_angular_module, lines 60-65: app-routing.module.ts is read, when it
\* exists.  open() raises PermissionError on a file the process may not open.
RoutingRead(c) ==
    /\ pc[c] = "routing"
    /\ UNCHANGED <<project_path, fs, nreq, ext, okRoot>>
    /\ LET tree == fs[project_path]
           file == tree.files["routing"]
       IN IF ~file.there
          THEN /\ loc' = [loc EXCEPT ![c].todo = WalkFiles(project_path, tree)]
               /\ pc' = [pc EXCEPT ![c] = "walk"]
               /\ UNCHANGED <<args, last>>
          ELSE IF ~file.ok
          THEN Raise(c, "cannot read")
          ELSE /\ loc' = [loc EXCEPT ![c].cur = "routing", ![c].buf = file.text]
               /\ pc' = [pc EXCEPT ![c] = "routing_w"]
               /\ UNCHANGED <<args, last>>

\* remove_angular_module, lines 67-89: the three substitutions, and the write.
RoutingWrite(c) ==
    /\ pc[c] = "routing_w"
    /\ UNCHANGED <<project_path, nreq, ext, okRoot>>
    /\ LET tree == fs[project_path]
           content == EditRoutingFile(loc[c].buf, args[c].module)
       IN IF ~tree.files["routing"].ok
          THEN Raise(c, "cannot write") /\ UNCHANGED fs
          ELSE /\ WriteFile("routing", content)
               /\ loc' = [loc EXCEPT ![c].written = Wrote(c, "routing", content),
                                     ![c].todo = WalkFiles(project_path, tree),
                                     ![c].cur = "", ![c].buf = << >>]
               /\ pc' = [pc EXCEPT ![c] = "walk"]
               /\ UNCHANGED <<args, last>>

\* remove_angular_module, lines 92-97: os.walk yields the next .ts file, and
\* the file is read.
WalkRead(c) ==
    /\ pc[c] = "walk"
    /\ loc[c].todo # {}
    /\ UNCHANGED <<project_path, fs, nreq, ext, okRoot>>
    /\ \E f \in loc[c].todo :
         /\ \A g \in loc[c].todo : Depth(f) <= Depth(g)
         /\ LET file == fs[project_path].files[f]
            IN IF ~file.ok
               THEN Raise(c, "cannot read")
               ELSE /\ loc' = [loc EXCEPT ![c].cur = f, ![c].buf = file.text,
                                          ![c].todo = @ \ {f}]
                    /\ pc' = [pc EXCEPT ![c] = "walk_w"]
                    /\ UNCHANGED <<args, last>>

\* remove_angular_module, lines 99-129: the four substitutions, and the write.
WalkWrite(c) ==
    /\ pc[c] = "walk_w"
    /\ UNCHANGED <<project_path, nreq, ext, okRoot>>
    /\ LET f == loc[c].cur
           content == EditTsFile(loc[c].buf, args[c].module)
       IN IF ~fs[project_path].files[f].ok
          THEN Raise(c, "cannot write") /\ UNCHANGED fs
          ELSE /\ WriteFile(f, content)
               /\ loc' = [loc EXCEPT ![c].written = Wrote(c, f, content),
                                     ![c].cur = "", ![c].buf = << >>]
               /\ pc' = [pc EXCEPT ![c] = "walk"]
               /\ UNCHANGED <<args, last>>

\* remove_module, lines 196-200: the walk is over; the name is taken off the
\* list made before the removal, and the list is returned.
RemoveReturn(c) ==
    /\ pc[c] = "walk"
    /\ loc[c].todo = {}
    /\ Respond(c, 200, "removed", loc[c].mods \ {args[c].module},
               project_path, fs[project_path], loc[c])
    /\ UNCHANGED <<project_path, fs, nreq, ext, okRoot>>

\* Other processes are modelled while a remove-module handler runs, on the
\* .ts files of the working copy: a write to the file the handler has read
\* and not yet written back, and a chmod of any file.
Running == \E c \in Conns : pc[c] \notin {"idle", "pending"}

\* Another process writes a source file of the working copy.
ExternalWrite(f) ==
    /\ ext < MaxExternal
    /\ \E c \in Conns : pc[c] \in {"routing_w", "walk_w"} /\ loc[c].cur = f
    /\ fs[project_path].files[f].there
    /\ fs[project_path].files[f].ok
    /\ fs' = [fs EXCEPT ![project_path].files[f].text = @ \o <<"// edited", "\n">>]
    /\ ext' = ext + 1
    /\ UNCHANGED <<project_path, pc, args, loc, nreq, okRoot, last>>

\* Another process takes away the permission to open a source file.
ExternalChmod(f) ==
    /\ ext < MaxExternal
    /\ Running
    /\ IsTs(f)
    /\ fs[project_path].files[f].there
    /\ fs[project_path].files[f].ok
    /\ fs' = [fs EXCEPT ![project_path].files[f].ok = FALSE]
    /\ ext' = ext + 1
    /\ UNCHANGED <<project_path, pc, args, loc, nreq, okRoot, last>>

Next ==
    \/ \E c \in Conns : \E a \in CloneArgs \cup RemoveArgs :
          Submit(c, a) /\ UNCHANGED editVars
    \/ \E c \in Conns : CloneRepo(c) /\ UNCHANGED editVars
    \/ \E c \in Conns : RemoveStart(c) /\ UNCHANGED editVars
    \/ \E c \in Conns : RemoveDir(c) /\ UNCHANGED editVars
    \/ \E c \in Conns : RoutingRead(c) /\ UNCHANGED editVars
    \/ \E c \in Conns : RoutingWrite(c) /\ UNCHANGED editVars
    \/ \E c \in Conns : WalkRead(c) /\ UNCHANGED editVars
    \/ \E c \in Conns : WalkWrite(c) /\ UNCHANGED editVars
    \/ \E c \in Conns : RemoveReturn(c) /\ UNCHANGED editVars
    \/ \E f \in FileIds : ExternalWrite(f) /\ UNCHANGED editVars
    \/ \E f \in FileIds : ExternalChmod(f) /\ UNCHANGED editVars

Spec == Init /\ [][Next]_vars

(***************************************************************************)
(* The rewrite of one file, in isolation: the file is app-routing.module.ts *)
(* (rewritten at lines 63-89 and again by the walk) or any other .ts file   *)
(* (rewritten by the walk alone).                                           *)
(***************************************************************************)
Names == {Foo, Foobar, Foofoo, Bar}
AllKinds == {"import", "decl", "route", "literal"}
Forms == {"line", "multi", "nested"}

SampleText(ref, kinds, form) ==
    (IF "import" \in kinds THEN ImportStmt(ref) ELSE << >>)
    \o (IF "decl" \in kinds THEN DeclEntry(ref) ELSE << >>)
    \o (IF "route" \in kinds THEN RouteBlock(ref, form) ELSE << >>)
    \o (IF "literal" \in kinds THEN PathLiteral(ref) ELSE << >>)

Inputs ==
    {[name |-> n, ref |-> r, kinds |-> k, form |-> f, text |-> SampleText(r, k, f)] :
        n \in Names, r \in Names, k \in (SUBSET AllKinds) \ {{}},
        f \in Forms}

EditInit ==
    /\ ServerInit
    /\ fs[Cwd] = NoTree
    /\ inp \in {i \in Inputs : "route" \in i.kinds \/ i.form = "line"}
    /\ outText = inp.text
    /\ stage = "in"

\* Lines 63-89, on the content of app-routing.module.ts.
EditRouting ==
    /\ stage = "in"
    /\ outText' = EditRoutingFile(outText, inp.name)
    /\ stage' = "routed"
    /\ UNCHANGED <<inp, serverVars>>

\* Lines 96-129, on the content of a .ts file the walk yields.
EditWalk ==
    /\ stage \in {"in", "routed"}
    /\ outText' = EditTsFile(outText, inp.name)
    /\ stage' = "done"
    /\ UNCHANGED <<inp, serverVars>>

EditNext == EditRouting \/ EditWalk

EditSpec == EditInit /\ [][EditNext]_vars

(***************************************************************************)
(* Properties.                                                              *)
(***************************************************************************)
InHandler(c) == pc[c] \notin {"idle", "pending"}

\* The content on disk of the file connection c is rewriting.
OnDisk(c) == fs[project_path].files[loc[c].cur].text

\* C1: a remove-module request that fails on the read or the write of a file
\* leaves either none or all of the affected files with their new content.
C1_AllOrNothing ==
    (last.kind = "remove" /\ last.detail \in {"cannot read", "cannot write"})
        => \/ last.written \cap last.affected = {}
           \/ last.affected \subseteq last.written

\* C2: the module's directory is removed only once every affected file has
\* been rewritten, and it is not removed by a request that ends in an error.
C2_DirectoryRemovedLast ==
    /\ \A c \in Conns : loc[c].rmdone => loc[c].affected \subseteq loc[c].written
    /\ (last.kind = "remove" /\ last.status # 200) => ~last.rmdone

\* C3: a remove-module request that directly follows a successful one for the
\* same module on the same working copy is answered "Module not found", an
\* error, and changes no file and no directory.
C3_SecondExciseNotFound ==
    last.again => /\ last.status = 500
                  /\ last.detail = "Module not found"
                  /\ last.written = {}
                  /\ ~last.rmdone

\* a is a proper prefix of b and occurs nowhere else in b.
MerePrefix(a, b) ==
    /\ Len(a) < Len(b)
    /\ SubSeq(b, 1, Len(a)) = a
    /\ \A i \in 2..(Len(b) - Len(a) + 1) : SubSeq(b, i, i + Len(a) - 1) # a

C5_UnreadableFileDoesNotAbort ==
    last.kind = "remove" => last.detail # "cannot read"

\* C6: when the content of a file on disk differs from what the request read
\* from it, the request does not write the file: it fails, and writes nothing.
C6_NoWriteOverChangedFile ==
    [][\A c \in Conns :
          (/\ pc[c] \in {"routing_w", "walk_w"}
           /\ pc'[c] # pc[c]
           /\ OnDisk(c) # loc[c].buf)
          => (fs' = fs /\ last'.status = 500)]_vars

\* C7: no two requests are inside their handlers at the same time.
C7_RequestsSerialized ==
    \A c \in Conns : \A d \in Conns \ {c} : ~(InHandler(c) /\ InHandler(d))

\* One request has read a file and not yet written it back while a second
\* request for the same module has arrived.
C7_Witness ==
    /\ pc[1] = "routing_w"
    /\ pc[2] = "pending"
    /\ args[1].kind = "remove"
    /\ args[2] = args[1]

\* C8: the remaining_modules of a successful remove-module are the
\* subdirectories of src/app at the time of the response, and the removed
\* module is not among them.
C8_RemainingIsCatalog ==
    (last.kind = "remove" /\ last.status = 200)
        => /\ last.remaining = last.catalog
           /\ last.module \notin last.catalog

\* re.search(pat, s, flags=re.IGNORECASE) is not None
ReFinds(pat, s) == \E i \in 1..Len(s) : MatchEnd(pat, s, 1, i) # 0

\* A reference of one of the four kinds to the module is found in the text.
HasReference(text, name) ==
    \/ ReFinds(ImportPattern(name), text)
    \/ ReFinds(NgModulePattern(name), text)
    \/ ReFinds(LiteralPattern(name), text)
    \/ ReFinds(<<Lit("path:"), Star(WS), Lit("'")>> \o Lits(name) \o <<Lit("'")>>,
               text)

\* As many opening as closing braces.
Balanced(text) ==
    Cardinality({i \in 1..Len(text) : text[i] = "{"})
        = Cardinality({i \in 1..Len(text) : text[i] = "}"})

\* C9: after the rewrite of a file that holds all four kinds of reference to
\* the removed module, no reference is left and no route block is left
\* half-deleted (a closing brace without its opening brace).
C9_AllReferencesRemoved ==
    (stage = "done" /\ inp.ref = inp.name /\ inp.kinds = AllKinds)
        => (~HasReference(outText, inp.name) /\ Balanced(outText))

\* C10: project_path is the clone_location of the last clone-repo request
\* that was answered 200, and the initial path before any.
C10_PathOfLastSuccessfulClone == project_path = okRoot

====
